---- MODULE Spec2Model ----
(***************************************************************************)
(* Run orchestration of the energy-market optimisation backend:            *)
(*   controllers/optimize.controller.js  (runOptimization)                 *)
(*   services/params.service.js          (updateParams and helpers)        *)
(*   services/python.service.js          (runCmd and the three jobs)       *)
(*   utils/cleanup.js                    (safeDelete)                      *)
(*   middlewares/middleware.js           (uploadMergedCSV)                 *)
(* Node runs one callback at a time: the code between two awaits is one    *)
(* atomic action.  The external jobs are separate processes and run        *)
(* concurrently with every handler.                                        *)
(***************************************************************************)
EXTENDS Integers, Sequences, FiniteSets, TLC

(***************************************************************************)
(* Bounds of the model.                                                    *)
(***************************************************************************)
NumRuns == 2
MaxMissing == 2
MaxUnlinkFail == 1

Runs == 1..NumRuns

(***************************************************************************)
(* JavaScript values, as far as the request carries them.                  *)
(***************************************************************************)
JSNull == [t |-> "null", s |-> "", n |-> 0]
Undefined == [t |-> "undefined", s |-> "", n |-> 0]
NaN == [t |-> "number", s |-> "NaN", n |-> 0]
Infinity == [t |-> "number", s |-> "Infinity", n |-> 0]
Num(i) == [t |-> "number", s |-> "", n |-> i]
Str(x) == [t |-> "string", s |-> x, n |-> 0]
Bool(b) == [t |-> "boolean", s |-> "", n |-> IF b THEN 1 ELSE 0]

\* StringToNumber of the string literals the requests of this model carry
\* (ECMAScript: the empty and the blank string are 0, a non-numeric one is NaN).
StringToNumber(x) ==
  CASE x = "" -> Num(0)
    [] x = " " -> Num(0)
    [] x = "5" -> Num(5)
    [] x = "05" -> Num(5)
    [] x = "10" -> Num(10)
    [] x = "3" -> Num(3)
    [] x = "Infinity" -> Infinity
    [] OTHER -> NaN

\* Number(value)
Number(v) ==
  CASE v.t = "null" -> Num(0)
    [] v.t = "undefined" -> NaN
    [] v.t = "boolean" -> Num(v.n)
    [] v.t = "number" -> v
    [] v.t = "string" -> StringToNumber(v.s)

\* the global isNaN(value): coerces with Number first
isNaN(v) == Number(v) = NaN

Digit(d) == CASE d = 0 -> "0" [] d = 1 -> "1" [] d = 2 -> "2" [] d = 3 -> "3"
              [] d = 4 -> "4" [] d = 5 -> "5" [] d = 6 -> "6" [] d = 7 -> "7"
              [] d = 8 -> "8" [] d = 9 -> "9"

RECURSIVE NatToString(_)
NatToString(i) == IF i < 10 THEN Digit(i) ELSE NatToString(i \div 10) \o Digit(i % 10)

\* String(value), as a template literal applies it
String(v) ==
  CASE v.t = "null" -> "null"
    [] v.t = "undefined" -> "undefined"
    [] v.t = "boolean" -> (IF v.n = 1 THEN "true" ELSE "false")
    [] v.t = "string" -> v.s
    [] v.t = "number" ->
         IF v = NaN THEN "NaN"
         ELSE IF v = Infinity THEN "Infinity"
         ELSE IF v.n < 0 THEN "-" \o NatToString(0 - v.n) ELSE NatToString(v.n)

(***************************************************************************)
(* params.service.js                                                       *)
(***************************************************************************)
PARAMS_PATH == "python/params.py"

\* A line of the artifact: an assignment `k sep v`, or any other line
\* (k = "", the text in v).
Assign(k, sep, v) == [k |-> k, sep |-> sep, v |-> v]
Other(text) == [k |-> "", sep |-> "", v |-> text]

RECURSIVE FirstMatch(_, _, _)
FirstMatch(content, key, i) ==
  IF i > Len(content) THEN 0
  ELSE IF content[i].k = key THEN i
  ELSE FirstMatch(content, key, i + 1)

\* the text of a line
LineText(l) == l.k \o l.sep \o l.v

\* String.prototype.replace with a replacement string expands its $
\* patterns: $& is the matched text.  Of the replacement texts of this model
\* only the quoted "$&" holds one.
GetSubstitution(matched, value) ==
  IF value = "\"$&\"" THEN "\"" \o matched \o "\"" ELSE value

\* replaceValue that adds the assignment when no line matches
replaceValueUpsert(content, key, value) ==
  LET i == FirstMatch(content, key, 1)
  IN IF i = 0 THEN Append(content, Assign(key, " = ", value))
     ELSE [content EXCEPT ![i] = Assign(key, " = ", GetSubstitution(LineText(content[i]), value))]

\* content.replace(/^key\s*=.*$/m, `key = value`): the first matching line only
replaceValue(content, key, value) ==
  LET i == FirstMatch(content, key, 1)
  IN IF i = 0 THEN content
     ELSE [content EXCEPT ![i] = Assign(key, " = ", GetSubstitution(LineText(content[i]), value))]

toPythonValue(value) ==
  IF value = JSNull \/ value = Undefined \/ value = Str("") \/ isNaN(value)
  THEN "float('nan')"
  ELSE String(Number(value))

toPythonBool(value) ==
  IF value = Bool(TRUE) THEN "True"
  ELSE IF value = Bool(FALSE) THEN "False"
  ELSE "False"

required == <<"mcp", "mdp", "roundTripEfficiency", "fee", "initialSoc",
              "degradationCost", "asDuration">>

Required == {required[i] : i \in 1..Len(required)}

\* A text is the sequence of its words.  missing.join(", "): the names, in
\* the order of the array
join(names) == names

\* a validation that lets values that are not a number pass
IsMissingNoNaN(val) == val = JSNull \/ val = Undefined \/ val = Str("")

IsMissing(val) == val = JSNull \/ val = Undefined \/ val = Str("") \/ isNaN(val)

\* required.filter(...)
missingOf(params) == SelectSeq(required, LAMBDA key : IsMissing(params[key]))

\* validateParams reporting the first missing field only
validateParamsFirstOnly(params) ==
  LET missing == SelectSeq(required, LAMBDA key : IsMissing(params[key]))
  IN IF Len(missing) > 0
     THEN <<"Error:", "Missing required parameters:", missing[1]>>
     ELSE <<>>

\* new Error(message), as String(err) shows it
Error(message) == <<"Error:">> \o message

\* validateParams: the error it throws, or <<>> when it returns
validateParams(params) ==
  LET missing == missingOf(params)
  IN IF Len(missing) > 0
     THEN Error(<<"Missing required parameters:">> \o join(missing))
     ELSE <<>>

Quote(x) == "\"" \o x \o "\""

rewriteRampNeverNone(content, p) ==
  LET c1 == replaceValue(content, "DATA_MODE", Quote(String(p.dataMode)))
      c2 == replaceValue(c1, "start_date", Quote(String(p.startDate)))
      c3 == replaceValue(c2, "end_date", Quote(String(p.endDate)))
      c4 == replaceValue(c3, "mcp", toPythonValue(p.mcp))
      c5 == replaceValue(c4, "mdp", toPythonValue(p.mdp))
      c6 == replaceValue(c5, "round_trip_efficiency", toPythonValue(p.roundTripEfficiency))
      c7 == replaceValue(c6, "fee", toPythonValue(p.fee))
      c8 == replaceValue(c7, "initial_soc", toPythonValue(p.initialSoc))
      c9 == replaceValue(c8, "degradation_cost_per_mwh", toPythonValue(p.degradationCost))
      c10 == replaceValue(c9, "as_duration_hours", toPythonValue(p.asDuration))
  IN replaceValue(c10, "reserve_ramp_mw_per_hour", toPythonValue(p.reserveRamp))

\* the content updateParams computes between readFileSync and writeFileSync
rewrite(content, p) ==
  LET c1 == replaceValue(content, "DATA_MODE", Quote(String(p.dataMode)))
      c2 == replaceValue(c1, "start_date", Quote(String(p.startDate)))
      c3 == replaceValue(c2, "end_date", Quote(String(p.endDate)))
      c4 == replaceValue(c3, "mcp", toPythonValue(p.mcp))
      c5 == replaceValue(c4, "mdp", toPythonValue(p.mdp))
      c6 == replaceValue(c5, "round_trip_efficiency", toPythonValue(p.roundTripEfficiency))
      c7 == replaceValue(c6, "fee", toPythonValue(p.fee))
      c8 == replaceValue(c7, "initial_soc", toPythonValue(p.initialSoc))
      c9 == replaceValue(c8, "degradation_cost_per_mwh", toPythonValue(p.degradationCost))
      c10 == replaceValue(c9, "as_duration_hours", toPythonValue(p.asDuration))
  IN IF p.reserveRamp = Str("") \/ p.reserveRamp = JSNull \/ p.reserveRamp = Undefined
     THEN replaceValue(c10, "reserve_ramp_mw_per_hour", "None")
     ELSE replaceValue(c10, "reserve_ramp_mw_per_hour", toPythonValue(p.reserveRamp))

(***************************************************************************)
(* python.service.js                                                       *)
(***************************************************************************)
\* What exec hands to its callback: err (non-zero exit, or the spawn
\* failed), the captured stdout and stderr, and err.message.
ExecResult(err, out, errText, msg) == [err |-> err, stdout |-> out, stderr |-> errText, message |-> msg]

ExecResults ==
  { ExecResult(FALSE, "ok", "", ""),
    ExecResult(TRUE, "", "Traceback", "Command failed"),
    ExecResult(TRUE, "", "", "Command failed") }

\* a runCmd that takes any text on the error stream for a failure
runCmdRejectOnStderr(x) ==
  IF x.err \/ x.stderr # ""
  THEN [rejected |-> TRUE, value |-> IF x.stderr # "" THEN x.stderr ELSE x.message]
  ELSE [rejected |-> FALSE, value |-> x.stdout]

\* runCmd: the promise settles from the callback of exec
runCmd(x) ==
  IF x.err
  THEN [rejected |-> TRUE, value |-> IF x.stderr # "" THEN x.stderr ELSE x.message]
  ELSE [rejected |-> FALSE, value |-> x.stdout]

makeSnapshot == "makeSnapshot"
runForecast == "runForecast"
runOptimizer == "runOptimizer"
Jobs == {makeSnapshot, runForecast, runOptimizer}

(***************************************************************************)
(* optimize.controller.js: the fixed paths                                 *)
(***************************************************************************)
snapshotPath == "python/data/merged_prices_snapshot.csv"

outputFiles0 ==
  << "python/optimization_results/results_trades_and_reserves.csv",
     "python/optimization_results/results_battery.csv",
     "python/optimization_results/results_pnl_by_product.csv" >>

forecastOutput == "python/optimization_results/mpc_forecast_results.csv"

\* multer({dest: "temp/"}) stores each upload under a name of its own
TempPath(r) == "temp/upload-" \o ToString(r)

basename(f) ==
  CASE f = snapshotPath -> "merged_prices_snapshot.csv"
    [] f = outputFiles0[1] -> "results_trades_and_reserves.csv"
    [] f = outputFiles0[2] -> "results_battery.csv"
    [] f = outputFiles0[3] -> "results_pnl_by_product.csv"
    [] f = forecastOutput -> "mpc_forecast_results.csv"
    [] OTHER -> f

SeqToSet(q) == {q[i] : i \in 1..Len(q)}

Paths == {snapshotPath, forecastOutput} \cup SeqToSet(outputFiles0) \cup {TempPath(r) : r \in Runs}

\* the files a job writes (the snapshot job the snapshot, the two engines
\* their result files)
JobOutputs(job) ==
  CASE job = makeSnapshot -> {snapshotPath}
    [] job = runForecast -> {forecastOutput}
    [] job = runOptimizer -> SeqToSet(outputFiles0)

Absent == "absent"
JobData == "job"
UploadData(r) == "upload-" \o ToString(r)

(***************************************************************************)
(* utils/cleanup.js                                                        *)
(***************************************************************************)
Ev(e, a) == [e |-> e, a |-> a]

\* safeDelete that looks but never unlinks
safeDeleteNoUnlink(f, filePath, failing) ==
  [fs |-> f, ev |-> <<[e |-> "safeDelete", a |-> filePath]>>]

\* safeDelete without the existsSync test: unlinkSync throws on a missing path
safeDeleteNoExistsCheck(f, filePath, failing) ==
  IF f[filePath] # Absent /\ filePath \notin failing
  THEN [fs |-> [f EXCEPT ![filePath] = Absent], ev |-> <<Ev("safeDelete", filePath)>>]
  ELSE [fs |-> f, ev |-> <<Ev("safeDelete", filePath), Ev("warn", filePath)>>]

\* safeDelete(filePath) on the file system f; unlinkSync throws for the paths
\* of failing, and the catch only logs
safeDelete(f, filePath, failing) ==
  IF f[filePath] # Absent
  THEN IF filePath \in failing
       THEN [fs |-> f, ev |-> <<Ev("safeDelete", filePath), Ev("warn", filePath)>>]
       ELSE [fs |-> [f EXCEPT ![filePath] = Absent],
             ev |-> <<Ev("safeDelete", filePath)>>]
  ELSE [fs |-> f, ev |-> <<Ev("safeDelete", filePath)>>]

\* a forEach that a failed deletion breaks off
RECURSIVE forEachSafeDeleteStopOnFail(_, _, _)
forEachSafeDeleteStopOnFail(f, paths, failing) ==
  IF paths = <<>> THEN [fs |-> f, ev |-> <<>>]
  ELSE LET one == safeDelete(f, Head(paths), failing)
           rest == IF f[Head(paths)] # Absent /\ Head(paths) \in failing
                   THEN [fs |-> one.fs, ev |-> <<>>]
                   ELSE forEachSafeDeleteStopOnFail(one.fs, Tail(paths), failing)
       IN [fs |-> rest.fs, ev |-> one.ev \o rest.ev]

\* paths.forEach(safeDelete)
RECURSIVE forEachSafeDelete(_, _, _)
forEachSafeDelete(f, paths, failing) ==
  IF paths = <<>> THEN [fs |-> f, ev |-> <<>>]
  ELSE LET one == safeDelete(f, Head(paths), failing)
           rest == forEachSafeDelete(one.fs, Tail(paths), failing)
       IN [fs |-> rest.fs, ev |-> one.ev \o rest.ev]

(***************************************************************************)
(* The requests                                                            *)
(***************************************************************************)
ConfigKeys == Required \cup {"reserveRamp"}

\* a config object whose required keys all hold v
ConfigOf(v, ramp) == [k \in ConfigKeys |-> IF k = "reserveRamp" THEN ramp ELSE v]

\* the value a key holds when the request lacks it, one kind per key
BadValue(k) ==
  CASE k = "mcp" -> JSNull
    [] k = "mdp" -> Undefined
    [] k = "roundTripEfficiency" -> Str("")
    [] k = "fee" -> Str("abc")
    [] k = "initialSoc" -> JSNull
    [] k = "degradationCost" -> Undefined
    [] k = "asDuration" -> Str("abc")

ValidConfigs ==
  { ConfigOf(Num(10), JSNull), ConfigOf(Str("5"), Num(3)), ConfigOf(Str("05"), Str("abc")) }

InvalidConfigs ==
  { [k \in ConfigKeys |-> IF k \in B THEN BadValue(k) ELSE ConfigOf(Num(10), JSNull)[k]] :
      B \in {S \in SUBSET Required : S # {} /\ Cardinality(S) <= MaxMissing} }

\* body.config: an object (JSON body), a text (multipart field) that
\* JSON.parse decodes to val or rejects, or nothing
ConfigObject(c) == [form |-> "object", wellFormed |-> TRUE, val |-> c]
ConfigText(c) == [form |-> "text", wellFormed |-> TRUE, val |-> c]
ConfigMalformed == [form |-> "text", wellFormed |-> FALSE, val |-> ConfigOf(Undefined, Undefined)]
ConfigAbsent == [form |-> "absent", wellFormed |-> TRUE, val |-> ConfigOf(Undefined, Undefined)]

Dates == {Undefined, Str("2024-01-01"), Str("$&")}

Request(file, fc, sd, ed, cfg) ==
  [hasFile |-> file, forecasting |-> fc, startDate |-> sd, endDate |-> ed, config |-> cfg]

Requests ==
  { Request(file, fc, Str("2024-01-01"), Str("2024-01-01"), cfg) :
      file \in BOOLEAN, fc \in {Str("true"), Bool(TRUE), Bool(FALSE)},
      cfg \in {ConfigObject(c) : c \in ValidConfigs} }
  \cup
  { Request(file, Str("false"), sd, ed, ConfigText(ConfigOf(Num(10), JSNull))) :
      file \in BOOLEAN, sd \in Dates, ed \in Dates }
  \cup
  { Request(file, Bool(TRUE), Str("2024-01-01"), Str("2024-01-01"), cfg) :
      file \in BOOLEAN,
      cfg \in {ConfigObject(c) : c \in InvalidConfigs} \cup {ConfigMalformed, ConfigAbsent} }

\* The requests of the dashboard (Optimize form): an upload goes as multipart
\* form data (the config as JSON text, the flag as a string, no dates), live
\* data as a JSON body.  parseFloat of an empty input is NaN, which JSON
\* carries as null.
FrontendConfigs ==
  { ConfigOf(Num(10), JSNull), ConfigOf(Num(5), Num(3)),
    [ConfigOf(Num(10), JSNull) EXCEPT !["mdp"] = JSNull, !["fee"] = JSNull] }

FrontendRequests ==
  { Request(TRUE, Str(fc), Undefined, Undefined, ConfigText(c)) :
      fc \in {"true", "false"}, c \in FrontendConfigs }
  \cup
  { Request(FALSE, Bool(fc), Str("2024-01-01"), Str("2024-01-01"), ConfigObject(c)) :
      fc \in BOOLEAN, c \in FrontendConfigs }

NoRequest == Request(FALSE, Undefined, Undefined, Undefined, ConfigAbsent)

\* the shipped python/params.py
Template ==
  << Other("# run parameters"),
     Assign("DATA_MODE", " = ", "\"live\""),
     Assign("start_date", " = ", "\"2023-01-01\""),
     Assign("end_date", " = ", "\"2023-12-31\""),
     Assign("mcp", "=", "1"),
     Assign("mdp", " = ", "1"),
     Assign("round_trip_efficiency", " = ", "1"),
     Assign("fee", " = ", "1"),
     Assign("initial_soc", " = ", "1"),
     Assign("degradation_cost_per_mwh", " = ", "1"),
     Assign("as_duration_hours", " = ", "1"),
     Assign("reserve_ramp_mw_per_hour", " = ", "None"),
     Other("forecasting_horizon = 42") >>

\* a params.py without the lines of mdp and of the reserve ramp
TemplateLacking ==
  SelectSeq(Template, LAMBDA l : l.k \notin {"mdp", "reserve_ramp_mw_per_hour"})

\* a params.py that assigns mcp a second time further down
TemplateTwice == Template \o <<Assign("mcp", " = ", "2")>>

\* the contents of python/params.py a run may find
Artifacts == {Template, TemplateLacking, TemplateTwice}

(***************************************************************************)
(* The file-system calls of a handler that the environment can fail: the   *)
(* first one to throw, if any.  writeFileSync truncates on open and then   *)
(* writes: it can fail at the open, or after it with nothing or half of    *)
(* the new content written.                                                *)
(***************************************************************************)
Faults ==
  { "none", "readFileSync", "writeFileSync:open", "writeFileSync:empty",
    "writeFileSync:partial", "mkdirSync", "renameSync" }

\* updateParams that overwrites the file in place, without truncating it: a
\* write that fails half way leaves the old second half
updateParamsInPlace(content, p, fault) ==
  LET msg == validateParams(p)
      new == rewrite(content, p)
      half == Len(new) \div 2
  IN IF msg # <<>> THEN [at |-> "validateParams", err |-> msg, content |-> content]
     ELSE IF fault = "readFileSync"
       THEN [at |-> "readFileSync", err |-> Error(<<"ENOENT">>), content |-> content]
     ELSE IF fault = "writeFileSync:open"
       THEN [at |-> "writeFileSync", err |-> Error(<<"EACCES">>), content |-> content]
     ELSE IF fault = "writeFileSync:empty"
       THEN [at |-> "writeFileSync", err |-> Error(<<"ENOSPC">>), content |-> content]
     ELSE IF fault = "writeFileSync:partial"
       THEN [at |-> "writeFileSync", err |-> Error(<<"ENOSPC">>),
             content |-> SubSeq(new, 1, half) \o SubSeq(content, half + 1, Len(content))]
     ELSE [at |-> "", err |-> <<>>, content |-> new]

\* updateParams that validates after it has rewritten the artifact
updateParamsValidateLast(content, p, fault) ==
  LET msg == validateParams(p)
      new == rewrite(content, p)
  IN IF fault = "readFileSync"
       THEN [at |-> "readFileSync", err |-> Error(<<"ENOENT">>), content |-> content]
     ELSE IF fault = "writeFileSync:open"
       THEN [at |-> "writeFileSync", err |-> Error(<<"EACCES">>), content |-> content]
     ELSE IF fault = "writeFileSync:empty"
       THEN [at |-> "writeFileSync", err |-> Error(<<"ENOSPC">>), content |-> <<>>]
     ELSE IF fault = "writeFileSync:partial"
       THEN [at |-> "writeFileSync", err |-> Error(<<"ENOSPC">>),
             content |-> SubSeq(new, 1, Len(new) \div 2)]
     ELSE IF msg # <<>> THEN [at |-> "validateParams", err |-> msg, content |-> new]
     ELSE [at |-> "", err |-> <<>>, content |-> new]

\* updateParams(args) on the artifact content: what it throws (err, <<>> when
\* it returns) and the content it leaves in the artifact
updateParams(content, p, fault) ==
  LET msg == validateParams(p)
      new == rewrite(content, p)
  IN IF msg # <<>> THEN [at |-> "validateParams", err |-> msg, content |-> content]
     ELSE IF fault = "readFileSync"
       THEN [at |-> "readFileSync", err |-> Error(<<"ENOENT">>), content |-> content]
     ELSE IF fault = "writeFileSync:open"
       THEN [at |-> "writeFileSync", err |-> Error(<<"EACCES">>), content |-> content]
     ELSE IF fault = "writeFileSync:empty"
       THEN [at |-> "writeFileSync", err |-> Error(<<"ENOSPC">>), content |-> <<>>]
     ELSE IF fault = "writeFileSync:partial"
       THEN [at |-> "writeFileSync", err |-> Error(<<"ENOSPC">>),
             content |-> SubSeq(new, 1, Len(new) \div 2)]
     ELSE [at |-> "", err |-> <<>>, content |-> new]

(***************************************************************************)
(* State                                                                   *)
(***************************************************************************)
VARIABLES
  pc,           \* per run: "idle", the job it awaits, "done"
  req,          \* per run: the request (body and files)
  outputFiles,  \* per run: the local outputFiles of runOptimization
  response,     \* per run: the responses sent on res, in order
  trace,        \* per run: the calls of the handler, in order
  fs,           \* path -> content, Absent when there is no such file
  artifact,     \* the lines of python/params.py
  unit          \* a function called on its own: its name, argument and result

vars == <<pc, req, outputFiles, response, trace, fs, artifact, unit>>

\* no function is called on its own while the service runs
NoCall == [fn |-> "", arg |-> JSNull, done |-> FALSE, out |-> ""]

Init ==
  /\ pc = [r \in Runs |-> "idle"]
  /\ req = [r \in Runs |-> NoRequest]
  /\ outputFiles = [r \in Runs |-> <<>>]
  /\ response = [r \in Runs |-> <<>>]
  /\ trace = [r \in Runs |-> <<>>]
  /\ fs = [p \in Paths |-> Absent]
  /\ artifact = Template
  /\ unit = NoCall

\* hasCSV that takes every request for an upload
hasCSVAlways(rq) == TRUE

\* const hasCSV = !!req.files?.merged
hasCSV(rq) == rq.hasFile

\* forecasting that takes the boolean only
forecastingStrict(rq) == rq.forecasting = Bool(TRUE)

\* const forecasting = body.forecasting === "true" || body.forecasting === true
forecasting(rq) == rq.forecasting = Str("true") \/ rq.forecasting = Bool(TRUE)

\* the argument of updateParams: {dataMode, startDate, endDate, ...config}
\* (the configs here carry the eight keys the dashboard sends, none that
\* would override dataMode, startDate or endDate)
paramsOf(rq) ==
  LET config == rq.config.val
  IN [dataMode |-> Str(IF hasCSV(rq) THEN "snapshot" ELSE "live"),
      startDate |-> rq.startDate,
      endDate |-> rq.endDate,
      mcp |-> config["mcp"],
      mdp |-> config["mdp"],
      roundTripEfficiency |-> config["roundTripEfficiency"],
      fee |-> config["fee"],
      initialSoc |-> config["initialSoc"],
      degradationCost |-> config["degradationCost"],
      asDuration |-> config["asDuration"],
      reserveRamp |-> config["reserveRamp"]]

SuccessResponse(files) ==
  [status |-> 200, message |-> "Optimization completed", error |-> <<>>,
   outputs |-> [i \in 1..Len(files) |-> basename(files[i])]]

\* res.status(500).json({ error: String(err) })
ErrorResponse(err) == [status |-> 500, message |-> "", error |-> err, outputs |-> <<>>]

\* Object.values(req.files || {}).flat(): the uploaded files of the request
uploaded(r, rq) == IF rq.hasFile THEN <<TempPath(r)>> ELSE <<>>

\* a finally block that leaves the snapshot alone
cleanupListNoSnapshot(r, rq, files) == uploaded(r, rq) \o files

\* the paths the finally block hands to safeDelete, in order
cleanupList(r, rq, files) == uploaded(r, rq) \o <<snapshotPath>> \o files

\* the cleanup at the end of the try instead of in a finally: a run that
\* threw returns without it
FinishWithoutFinally(r, rq, resp, evs, f, files) ==
  LET paths == IF resp.status = 200 THEN cleanupList(r, rq, files) ELSE <<>>
      del == forEachSafeDelete(f, paths, {})
  IN /\ fs' = del.fs
     /\ response' = [response EXCEPT ![r] = Append(@, resp)]
     /\ trace' = [trace EXCEPT ![r] =
                    @ \o evs \o <<Ev("res.json", IF resp.status = 200 THEN "success" ELSE "error")>>
                      \o del.ev \o <<Ev("return", "")>>]
     /\ outputFiles' = [outputFiles EXCEPT ![r] = files]
     /\ pc' = [pc EXCEPT ![r] = "done"]

\* The end of runOptimization: the response (res.json in the try, or the one
\* of the catch) and then the finally block, on the file system f.
Finish(r, rq, resp, evs, f, files) ==
  \E failing \in {S \in SUBSET {p \in SeqToSet(cleanupList(r, rq, files)) : f[p] # Absent} :
                    Cardinality(S) <= MaxUnlinkFail} :
    LET del == forEachSafeDelete(f, cleanupList(r, rq, files), failing)
    IN /\ fs' = del.fs
       /\ response' = [response EXCEPT ![r] = Append(@, resp)]
       /\ trace' = [trace EXCEPT ![r] =
                      @ \o evs \o <<Ev("res.json", IF resp.status = 200 THEN "success" ELSE "error")>>
                        \o del.ev \o <<Ev("return", "")>>]
       /\ outputFiles' = [outputFiles EXCEPT ![r] = files]
       /\ pc' = [pc EXCEPT ![r] = "done"]

\* a job is started (exec) and the handler suspends on its promise
Await(r, job, evs, f, files) ==
  /\ fs' = f
  /\ trace' = [trace EXCEPT ![r] = @ \o evs \o <<Ev("exec", job)>>]
  /\ outputFiles' = [outputFiles EXCEPT ![r] = files]
  /\ pc' = [pc EXCEPT ![r] = job]
  /\ UNCHANGED response

\* the optimization started without the forecast
AfterIngestNoForecast(r, rq, evs, f, files) == Await(r, runOptimizer, evs, f, files)

\* the next job started without await: the run goes on to its response
\* while the job is in flight
AfterIngestNoAwait(r, rq, evs, f, files) ==
  Finish(r, rq, SuccessResponse(files),
         evs \o <<Ev("exec", IF forecasting(rq) THEN runForecast ELSE runOptimizer)>>, f, files)

\* lines 49-56, from the end of the ingestion on
AfterIngest(r, rq, evs, f, files) ==
  IF forecasting(rq)
  THEN Await(r, runForecast, evs, f, files)
  ELSE Await(r, runOptimizer, evs, f, files)

(***************************************************************************)
(* Actions                                                                 *)
(***************************************************************************)
\* a copy instead of a move: the source stays
renameSyncCopy(f, from, to) == [f EXCEPT ![to] = f[from]]

\* fs.renameSync(from, to)
renameSync(f, from, to) == [f EXCEPT ![to] = f[from], ![from] = Absent]

\* runOptimization with the ingestion ahead of updateParams
runOptimizationIngestFirst(r, requests) ==
  /\ pc[r] = "idle"
  /\ IF r = 1 THEN TRUE ELSE pc[r - 1] # "idle"
  /\ UNCHANGED unit
  /\ \E rq \in requests :
       LET f0 == IF rq.hasFile THEN [fs EXCEPT ![TempPath(r)] = UploadData(r)] ELSE fs
           u == updateParams(artifact, paramsOf(rq), "none")
       IN /\ req' = [req EXCEPT ![r] = rq]
          /\ IF hasCSV(rq)
             THEN IF u.err # <<>>
                  THEN /\ artifact' = u.content
                       /\ Finish(r, rq, ErrorResponse(u.err),
                                 <<Ev("mkdirSync", ""), Ev("renameSync", TempPath(r)), Ev("throw", u.at)>>,
                                 renameSync(f0, TempPath(r), snapshotPath), outputFiles0)
                  ELSE /\ artifact' = u.content
                       /\ AfterIngest(r, rq,
                            <<Ev("mkdirSync", ""), Ev("renameSync", TempPath(r)), Ev("updateParams", "ok")>>,
                            renameSync(f0, TempPath(r), snapshotPath), outputFiles0)
             ELSE /\ artifact' = artifact
                  /\ Await(r, makeSnapshot, <<>>, f0, outputFiles0)

\* A request arrives: uploadMergedCSV stores the upload (if any) and calls
\* runOptimization, which runs to its first await, or to its return when
\* something throws before.  Runs are numbered in the order of their arrival.
runOptimization(r, requests) ==
  /\ pc[r] = "idle"
  /\ IF r = 1 THEN TRUE ELSE pc[r - 1] # "idle"
  /\ UNCHANGED unit
  /\ \E rq \in requests, fault \in Faults :
       LET f0 == IF rq.hasFile THEN [fs EXCEPT ![TempPath(r)] = UploadData(r)] ELSE fs
           parseThrows == rq.config.form = "text" /\ ~rq.config.wellFormed
           u == updateParams(artifact, paramsOf(rq), fault)
           ok == <<Ev("updateParams", "ok")>>
       IN /\ req' = [req EXCEPT ![r] = rq]
          /\ IF parseThrows
             THEN /\ artifact' = artifact
                  /\ Finish(r, rq, ErrorResponse(<<"SyntaxError:", "Unexpected token">>),
                            <<Ev("throw", "JSON.parse")>>, f0, outputFiles0)
             ELSE IF u.err # <<>>
             THEN /\ artifact' = u.content
                  /\ Finish(r, rq, ErrorResponse(u.err), <<Ev("throw", u.at)>>, f0, outputFiles0)
             ELSE /\ artifact' = u.content
                  /\ IF hasCSV(rq)
                     THEN IF fault = "mkdirSync"
                          THEN Finish(r, rq, ErrorResponse(Error(<<"EACCES">>)),
                                      ok \o <<Ev("throw", "mkdirSync")>>, f0, outputFiles0)
                          ELSE IF fault = "renameSync"
                          THEN Finish(r, rq, ErrorResponse(Error(<<"EXDEV">>)),
                                      ok \o <<Ev("mkdirSync", ""), Ev("throw", "renameSync")>>,
                                      f0, outputFiles0)
                          ELSE AfterIngest(r, rq,
                                 ok \o <<Ev("mkdirSync", ""), Ev("renameSync", TempPath(r))>>,
                                 renameSync(f0, TempPath(r), snapshotPath), outputFiles0)
                     ELSE Await(r, makeSnapshot, ok, f0, outputFiles0)

\* a job in flight writes one of its files
JobWrite(r) ==
  /\ pc[r] \in Jobs
  /\ \E p \in JobOutputs(pc[r]) :
       /\ fs[p] # JobData
       /\ fs' = [fs EXCEPT ![p] = JobData]
  /\ UNCHANGED <<pc, req, outputFiles, response, trace, artifact, unit>>

\* the rejection of the snapshot job swallowed
ResumeAfterSnapshotIgnoringFailure(r) ==
  /\ pc[r] = makeSnapshot
  /\ \E x \in ExecResults :
       LET p == runCmd(x)
       IN AfterIngest(r, req[r], <<Ev(IF p.rejected THEN "rejected" ELSE "resolved", makeSnapshot)>>,
                      fs, outputFiles[r])
  /\ UNCHANGED <<req, artifact, unit>>

\* the snapshot job tried a second time when its first attempt fails
ResumeAfterSnapshotRetry(r) ==
  /\ pc[r] = makeSnapshot
  /\ \E x \in ExecResults :
       LET p == runCmd(x)
           first == ~\E i \in DOMAIN trace[r] : trace[r][i] = Ev("rejected", makeSnapshot)
       IN IF p.rejected
          THEN IF first
               THEN Await(r, makeSnapshot, <<Ev("rejected", makeSnapshot)>>, fs, outputFiles[r])
               ELSE Finish(r, req[r], ErrorResponse(<<p.value>>), <<Ev("rejected", makeSnapshot)>>,
                           fs, outputFiles[r])
          ELSE AfterIngest(r, req[r], <<Ev("resolved", makeSnapshot)>>, fs, outputFiles[r])
  /\ UNCHANGED <<req, artifact, unit>>

\* the snapshot job exits: runOptimization resumes after line 46
ResumeAfterSnapshot(r) ==
  /\ pc[r] = makeSnapshot
  /\ \E x \in ExecResults :
       LET p == runCmd(x)
       IN IF p.rejected
          THEN Finish(r, req[r], ErrorResponse(<<p.value>>), <<Ev("rejected", makeSnapshot)>>,
                      fs, outputFiles[r])
          ELSE AfterIngest(r, req[r], <<Ev("resolved", makeSnapshot)>>, fs, outputFiles[r])
  /\ UNCHANGED <<req, artifact, unit>>

\* the forecast output never pushed to outputFiles
ResumeAfterForecastNoPush(r) ==
  /\ pc[r] = runForecast
  /\ \E x \in ExecResults :
       LET p == runCmd(x)
       IN IF p.rejected
          THEN Finish(r, req[r], ErrorResponse(<<p.value>>), <<Ev("rejected", runForecast)>>,
                      fs, outputFiles[r])
          ELSE Await(r, runOptimizer, <<Ev("resolved", runForecast)>>, fs, outputFiles[r])
  /\ UNCHANGED <<req, artifact, unit>>

\* the forecast output pushed to outputFiles whether the job failed or not
ResumeAfterForecastPushAlways(r) ==
  /\ pc[r] = runForecast
  /\ \E x \in ExecResults :
       LET p == runCmd(x)
       IN IF p.rejected
          THEN Finish(r, req[r], ErrorResponse(<<p.value>>),
                      <<Ev("rejected", runForecast), Ev("push", forecastOutput)>>,
                      fs, Append(outputFiles[r], forecastOutput))
          ELSE Await(r, runOptimizer,
                     <<Ev("resolved", runForecast), Ev("push", forecastOutput)>>,
                     fs, Append(outputFiles[r], forecastOutput))
  /\ UNCHANGED <<req, artifact, unit>>

\* the forecast job exits: runOptimization resumes after line 51
ResumeAfterForecast(r) ==
  /\ pc[r] = runForecast
  /\ \E x \in ExecResults :
       LET p == runCmd(x)
       IN IF p.rejected
          THEN Finish(r, req[r], ErrorResponse(<<p.value>>), <<Ev("rejected", runForecast)>>,
                      fs, outputFiles[r])
          ELSE Await(r, runOptimizer,
                     <<Ev("resolved", runForecast), Ev("push", forecastOutput)>>,
                     fs, Append(outputFiles[r], forecastOutput))
  /\ UNCHANGED <<req, artifact, unit>>

\* the rejection of the optimization job swallowed: the success response
\* is sent all the same
ResumeAfterOptimizerSwallow(r) ==
  /\ pc[r] = runOptimizer
  /\ \E x \in ExecResults :
       LET p == runCmd(x)
       IN Finish(r, req[r], SuccessResponse(outputFiles[r]),
                 <<Ev(IF p.rejected THEN "rejected" ELSE "resolved", runOptimizer)>>,
                 fs, outputFiles[r])
  /\ UNCHANGED <<req, artifact, unit>>

\* the optimization job exits: runOptimization resumes after line 56
ResumeAfterOptimizer(r) ==
  /\ pc[r] = runOptimizer
  /\ \E x \in ExecResults :
       LET p == runCmd(x)
       IN IF p.rejected
          THEN Finish(r, req[r], ErrorResponse(<<p.value>>), <<Ev("rejected", runOptimizer)>>,
                      fs, outputFiles[r])
          ELSE Finish(r, req[r], SuccessResponse(outputFiles[r]),
                      <<Ev("resolved", runOptimizer)>>, fs, outputFiles[r])
  /\ UNCHANGED <<req, artifact, unit>>

\* the service: the runs interleave at their awaits; the requests are the
\* ones the dashboard sends
Next ==
  \E r \in Runs :
    \/ runOptimization(r, FrontendRequests)
    \/ JobWrite(r)
    \/ ResumeAfterSnapshot(r)
    \/ ResumeAfterForecast(r)
    \/ ResumeAfterOptimizer(r)

Spec == Init /\ [][Next]_vars

\* one run on its own, of any request
NextRun ==
  \/ runOptimization(1, Requests)
  \/ JobWrite(1)
  \/ ResumeAfterSnapshot(1)
  \/ ResumeAfterForecast(1)
  \/ ResumeAfterOptimizer(1)

SpecRun == Init /\ [][NextRun]_vars

\* one run on any of the artifacts
InitParams ==
  /\ pc = [r \in Runs |-> "idle"]
  /\ req = [r \in Runs |-> NoRequest]
  /\ outputFiles = [r \in Runs |-> <<>>]
  /\ response = [r \in Runs |-> <<>>]
  /\ trace = [r \in Runs |-> <<>>]
  /\ fs = [p \in Paths |-> Absent]
  /\ artifact \in Artifacts
  /\ unit = NoCall

SpecParams == InitParams /\ [][NextRun]_vars

\* a job that was started exits in the end, and Node then runs the
\* continuation of the handler that awaits it
JobsExit(r) ==
  /\ WF_vars(ResumeAfterSnapshot(r))
  /\ WF_vars(ResumeAfterForecast(r))
  /\ WF_vars(ResumeAfterOptimizer(r))

\* one run of a request of the dashboard, or of one whose config text does
\* not decode: between them they take every path through runOptimization
PathRequests ==
  FrontendRequests \cup {Request(TRUE, Str("true"), Undefined, Undefined, ConfigMalformed)}

NextPaths ==
  \/ runOptimization(1, PathRequests)
  \/ JobWrite(1)
  \/ ResumeAfterSnapshot(1)
  \/ ResumeAfterForecast(1)
  \/ ResumeAfterOptimizer(1)

SpecRunFair == Init /\ [][NextPaths]_vars /\ JobsExit(1)

\* concurrent live-data runs whose date strings differ; an API client may
\* put any string in a date
DateRequests ==
  { Request(FALSE, Bool(fc), Str(d[1]), Str(d[2]), ConfigObject(ConfigOf(Num(10), JSNull))) :
      fc \in BOOLEAN, d \in {<<"2024-01-01", "2024-01-31">>, <<"2024-02-01", "$&">>} }

NextDates ==
  \E r \in Runs :
    \/ runOptimization(r, DateRequests)
    \/ JobWrite(r)
    \/ ResumeAfterSnapshot(r)
    \/ ResumeAfterForecast(r)
    \/ ResumeAfterOptimizer(r)

SpecDates == Init /\ [][NextDates]_vars

(***************************************************************************)
(* The functions of the services called on their own, on arguments of      *)
(* every kind (the service itself hands them only some).                   *)
(***************************************************************************)
\* the values a JSON body or a form field can hold in a parameter
UnitValues ==
  { JSNull, Undefined, Str(""), Str(" "), Str("abc"), NaN, Infinity, Str("Infinity"),
    Num(0), Num(5), Num(10), Num(-3), Str("5"), Str("05"), Bool(TRUE), Bool(FALSE) }

\* what exec can hand to its callback: besides ExecResults, a job that
\* succeeds with warnings on its error stream, and a shell that cannot be spawned
UnitExecResults ==
  ExecResults \cup
    { ExecResult(FALSE, "ok", "warning", ""),
      ExecResult(TRUE, "", "", "spawn /bin/sh ENOENT"),
      ExecResult(TRUE, "partial", "Traceback", "Command failed") }

\* the paths of the finally block of a run with an upload and a forecast
UnitPaths == cleanupList(1, [hasFile |-> TRUE], Append(outputFiles0, forecastOutput))

\* the file systems the cleanup can meet, and the unlinks that fail
\* (an unlink that failed once may fail or succeed the next time)
UnitFileSystems ==
  LET Failing == {S \in SUBSET SeqToSet(UnitPaths) : Cardinality(S) <= MaxUnlinkFail}
  IN { [fs |-> [p \in Paths |-> IF p \in present THEN JobData ELSE Absent],
        failing |-> failing, again |-> again] :
         present \in SUBSET SeqToSet(UnitPaths), failing \in Failing, again \in Failing }

Call(fn, arg, out) == [fn |-> fn, arg |-> arg, done |-> FALSE, out |-> out]

InitUnit ==
  /\ pc = [r \in Runs |-> "idle"]
  /\ req = [r \in Runs |-> NoRequest]
  /\ outputFiles = [r \in Runs |-> <<>>]
  /\ response = [r \in Runs |-> <<>>]
  /\ trace = [r \in Runs |-> <<>>]
  /\ fs = [p \in Paths |-> Absent]
  /\ artifact = Template
  /\ \/ \E v \in UnitValues : unit = Call("toPythonValue", v, "")
     \/ \E v \in UnitValues : unit = Call("reserveRamp", v, "")
     \/ \E x \in UnitExecResults : unit = Call("runCmd", x, runCmd(ExecResult(FALSE, "", "", "")))
     \/ \E a \in UnitFileSystems :
          unit = Call("safeDelete", a, [first |-> forEachSafeDelete(a.fs, <<>>, {}),
                                        second |-> forEachSafeDelete(a.fs, <<>>, {})])

Return(out) ==
  /\ unit' = [unit EXCEPT !.done = TRUE, !.out = out]
  /\ UNCHANGED <<pc, req, outputFiles, response, trace, fs, artifact>>

\* toPythonValue(value)
applyToPythonValue ==
  /\ unit.fn = "toPythonValue" /\ ~unit.done
  /\ Return(toPythonValue(unit.arg))

\* the reserve ramp of updateParams (lines 127-136): the value the line of
\* the key holds after the replacements, all other parameters being valid
applyReserveRamp ==
  /\ unit.fn = "reserveRamp" /\ ~unit.done
  /\ LET rq == Request(FALSE, Bool(FALSE), Str("2024-01-01"), Str("2024-01-01"),
                       ConfigObject(ConfigOf(Num(10), unit.arg)))
         content == rewrite(artifact, paramsOf(rq))
     IN Return(content[FirstMatch(content, "reserve_ramp_mw_per_hour", 1)].v)

\* runCmd(command), exec calling back with unit.arg
applyRunCmd ==
  /\ unit.fn = "runCmd" /\ ~unit.done
  /\ Return(runCmd(unit.arg))

\* paths.forEach(safeDelete), and the same once more
applySafeDeleteTwice ==
  /\ unit.fn = "safeDelete" /\ ~unit.done
  /\ LET first == forEachSafeDelete(unit.arg.fs, UnitPaths, unit.arg.failing)
     IN Return([first |-> first,
                second |-> forEachSafeDelete(first.fs, UnitPaths, unit.arg.again)])

NextUnit ==
  \/ applyToPythonValue
  \/ applyReserveRamp
  \/ applyRunCmd
  \/ applySafeDeleteTwice

SpecUnit == InitUnit /\ [][NextUnit]_vars

(***************************************************************************)
(* Reading the state                                                       *)
(***************************************************************************)
Has(r, e, a) == \E i \in DOMAIN trace[r] : trace[r][i] = Ev(e, a)

HasAny(r, e) == \E i \in DOMAIN trace[r] : trace[r][i].e = e

Started(r, job) == Has(r, "exec", job)

Succeeded(r) == response[r] # <<>> /\ response[r][1].status = 200

Failed(r) == response[r] # <<>> /\ response[r][1].status = 500

\* the values that are null, absent, empty or not a number
BadValues == {JSNull, Undefined, Str(""), Str("abc"), NaN}

\* the required parameters the request of r lacks (a config that does not
\* decode carries none of them)
Lacking(r) == {k \in Required : req[r].config.val[k] \in BadValues}

\* the response of r is the validation error that names exactly the fields of names
IsValidationError(r, names) ==
  /\ Len(response[r]) = 1
  /\ response[r][1].status = 500
  /\ Len(response[r][1].error) >= 2
  /\ SubSeq(response[r][1].error, 1, 2) = <<"Error:", "Missing required parameters:">>
  /\ SeqToSet(SubSeq(response[r][1].error, 3, Len(response[r][1].error))) = names

(***************************************************************************)
(* C1 as stated: every finished run whose request lacks a required         *)
(* parameter (null, absent, empty or not a number) has answered with the   *)
(* validation error that names every lacking field, and has started none   *)
(* of the three jobs.                                                      *)
(***************************************************************************)
C1_AsStated ==
  \A r \in Runs :
    (pc[r] = "done" /\ Lacking(r) # {}) =>
      /\ IsValidationError(r, Lacking(r))
      /\ \A job \in Jobs : ~Started(r, job)

(***************************************************************************)
(* C1 amended: the same, for the requests whose config is an object or     *)
(* JSON text that parses (or is not sent at all).  A config text that      *)
(* JSON.parse rejects fails with the SyntaxError before validateParams     *)
(* runs; no job is started then either.                                    *)
(***************************************************************************)
C1_ValidationNamesEveryField ==
  \A r \in Runs :
    /\ (pc[r] = "done" /\ Lacking(r) # {} /\ req[r].config.wellFormed) =>
         /\ IsValidationError(r, Lacking(r))
         /\ \A job \in Jobs : ~Started(r, job)
    /\ (pc[r] = "done" /\ ~req[r].config.wellFormed) =>
         /\ Failed(r)
         /\ \A job \in Jobs : ~Started(r, job)

\* a live-data run (which starts with the snapshot job when it validates)
\* that lacks two fields, not the first one of the list
C1_Witness ==
  \E r \in Runs :
    /\ pc[r] = "done"
    /\ ~req[r].hasFile
    /\ req[r].config.wellFormed
    /\ Lacking(r) = {"mdp", "fee"}
    /\ IsValidationError(r, {"mdp", "fee"})

(***************************************************************************)
(* C2: a run that has finished, on whatever path, has called safeDelete    *)
(* on its uploaded temp file (if any), on the snapshot path, on the three  *)
(* fixed output paths and on every path of its output-file list.           *)
(***************************************************************************)
C2_CleanupOnEveryExit ==
  \A r \in Runs :
    pc[r] = "done" =>
      /\ req[r].hasFile => Has(r, "safeDelete", TempPath(r))
      /\ Has(r, "safeDelete", snapshotPath)
      /\ \A i \in 1..3 : Has(r, "safeDelete", outputFiles0[i])
      /\ \A i \in DOMAIN outputFiles[r] : Has(r, "safeDelete", outputFiles[r][i])

\* a run with an upload whose rename threw, its temp file still there
\* because its deletion failed too
C2_Witness ==
  \E r \in Runs :
    /\ pc[r] = "done" /\ Has(r, "throw", "renameSync")
    /\ Has(r, "safeDelete", TempPath(r)) /\ Has(r, "warn", TempPath(r))
    /\ Has(r, "safeDelete", snapshotPath)
    /\ fs[TempPath(r)] # Absent

(***************************************************************************)
(* C3: when a successful run finishes and no deletion of its cleanup       *)
(* failed, then at that moment there is no file at its uploaded temp path, *)
(* none at the snapshot path and none at any path whose base name the      *)
(* response lists.                                                         *)
(***************************************************************************)
C3_SuccessLeavesNoFile ==
  [][ \A r \in Runs :
        ( /\ pc[r] # "done" /\ pc'[r] = "done"
          /\ response'[r] # <<>> /\ response'[r][1].status = 200
          /\ \A i \in DOMAIN trace'[r] : trace'[r][i].e # "warn" )
        => /\ fs'[TempPath(r)] = Absent
           /\ fs'[snapshotPath] = Absent
           /\ \A p \in Paths :
                (\E i \in DOMAIN response'[r][1].outputs : response'[r][1].outputs[i] = basename(p))
                  => fs'[p] = Absent ]_vars

\* a successful run of an upload with a forecast, all deletions done
C3_Witness ==
  \E r \in Runs :
    /\ pc[r] = "done" /\ Succeeded(r)
    /\ req[r].hasFile
    /\ Len(response[r][1].outputs) = 4
    /\ ~HasAny(r, "warn")
    /\ fs[snapshotPath] = Absent

(***************************************************************************)
(* C4: a run whose request carries an upload never starts the snapshot     *)
(* job, and a run whose request carries none never calls mkdirSync or      *)
(* renameSync.                                                             *)
(***************************************************************************)
C4_IngestionExclusive ==
  \A r \in Runs :
    pc[r] # "idle" =>
      /\ req[r].hasFile => ~Started(r, makeSnapshot)
      /\ ~req[r].hasFile =>
           /\ ~HasAny(r, "mkdirSync") /\ ~HasAny(r, "renameSync")
           /\ ~Has(r, "throw", "mkdirSync") /\ ~Has(r, "throw", "renameSync")

\* an upload run that has moved its file and finished with success
C4_Witness ==
  \E r \in Runs :
    /\ req[r].hasFile /\ Has(r, "renameSync", TempPath(r))
    /\ pc[r] = "done" /\ Succeeded(r)

\* forecasting is enabled in the request of r
ForecastingEnabled(r) == req[r].forecasting \in {Str("true"), Bool(TRUE)}

\* the event ev of r comes with an earlier event of before
Preceded(r, ev, before) ==
  \A j \in DOMAIN trace[r] :
    trace[r][j] = ev => \E i \in 1..(j - 1) : trace[r][i] \in before

(***************************************************************************)
(* C5: in a run with forecasting enabled the optimization job is started   *)
(* only after the forecast job was started and then resolved; it is not    *)
(* started while the forecast job is in flight, nor once it was rejected.  *)
(***************************************************************************)
C5_ForecastBeforeOptimizer ==
  \A r \in Runs :
    (pc[r] # "idle" /\ ForecastingEnabled(r)) =>
      /\ \A j \in DOMAIN trace[r] :
           trace[r][j] = Ev("exec", runOptimizer) =>
             \E i, k \in 1..(j - 1) :
               /\ i < k
               /\ trace[r][i] = Ev("exec", runForecast)
               /\ trace[r][k] = Ev("resolved", runForecast)
      /\ pc[r] = runForecast => ~Started(r, runOptimizer)
      /\ Has(r, "rejected", runForecast) => ~Started(r, runOptimizer)

\* a run with the flag sent as a string that has started its optimization job
C5_Witness ==
  \E r \in Runs :
    /\ req[r].forecasting = Str("true")
    /\ pc[r] = runOptimizer
    /\ Has(r, "resolved", runForecast)

(***************************************************************************)
(* C6: the outputs of a success response are the base names of the three   *)
(* fixed optimization outputs, in their order, followed by                 *)
(* mpc_forecast_results.csv exactly when forecasting was enabled.          *)
(***************************************************************************)
C6_Manifest ==
  \A r \in Runs :
    Succeeded(r) =>
      response[r][1].outputs =
        <<"results_trades_and_reserves.csv", "results_battery.csv", "results_pnl_by_product.csv">>
          \o (IF ForecastingEnabled(r) THEN <<"mpc_forecast_results.csv">> ELSE <<>>)

\* a successful run with the flag sent as the string "true"
C6_Witness ==
  \E r \in Runs :
    /\ Succeeded(r) /\ req[r].forecasting = Str("true")
    /\ Len(response[r][1].outputs) = 4

(***************************************************************************)
(* C7: a run whose optimization job failed after its forecast job had      *)
(* succeeded answers with the error payload only, and its cleanup calls    *)
(* safeDelete on the snapshot path, the three optimization outputs and     *)
(* the forecast output.                                                    *)
(***************************************************************************)
C7_OptimizerFailsAfterForecast ==
  \A r \in Runs :
    (Has(r, "resolved", runForecast) /\ Has(r, "rejected", runOptimizer)) =>
      /\ pc[r] = "done"
      /\ Len(response[r]) = 1 /\ response[r][1].status = 500
      /\ response[r][1].outputs = <<>> /\ response[r][1].error # <<>>
      /\ Has(r, "safeDelete", snapshotPath)
      /\ \A i \in 1..3 : Has(r, "safeDelete", outputFiles0[i])
      /\ Has(r, "safeDelete", forecastOutput)

C7_Witness ==
  \E r \in Runs :
    /\ Has(r, "resolved", runForecast) /\ Has(r, "rejected", runOptimizer)
    /\ pc[r] = "done"
    /\ response[r][1].error = <<"Traceback">>

(***************************************************************************)
(* C8 as stated: a failed run whose deletions did not fail leaves no file  *)
(* at the snapshot path, at the three optimization output paths or at the  *)
(* forecast output path.                                                   *)
(***************************************************************************)
C8_NoPartialResults ==
  \A r \in Runs :
    (pc[r] = "done" /\ Failed(r) /\ ~HasAny(r, "warn")) =>
      /\ fs[snapshotPath] = Absent
      /\ \A i \in 1..3 : fs[outputFiles0[i]] = Absent
      /\ fs[forecastOutput] = Absent

(***************************************************************************)
(* C9: once a step of a run has thrown or its job was rejected, the run    *)
(* takes no further pipeline step (no updateParams, mkdir, rename, job     *)
(* start or push) and never sends the success response.                    *)
(***************************************************************************)
C9_FailureAborts ==
  \A r \in Runs :
    \A k \in DOMAIN trace[r] :
      trace[r][k].e \in {"throw", "rejected"} =>
        /\ \A j \in DOMAIN trace[r] :
             j > k => trace[r][j].e \in {"res.json", "safeDelete", "warn", "return"}
        /\ ~Has(r, "res.json", "success")
        /\ Failed(r)
        /\ trace[r][k].a \in {"JSON.parse", "validateParams", "readFileSync", "writeFileSync"} =>
             ~HasAny(r, "exec") /\ ~HasAny(r, "mkdirSync") /\ ~HasAny(r, "renameSync")
        /\ trace[r][k].a \in {"mkdirSync", "renameSync", makeSnapshot} =>
             ~Started(r, runForecast) /\ ~Started(r, runOptimizer)
        /\ trace[r][k].a = runForecast => ~Started(r, runOptimizer)

\* a live run with forecasting whose snapshot job failed
C9_Witness ==
  \E r \in Runs :
    /\ pc[r] = "done" /\ ForecastingEnabled(r) /\ Has(r, "rejected", makeSnapshot)
    /\ Failed(r)

(***************************************************************************)
(* C10: in a run, updateParams has returned before the ingestion begins    *)
(* (mkdir, rename or the start of the snapshot job) and before any job is  *)
(* started, and the ingestion has completed (the rename done, or the       *)
(* snapshot job resolved) before the forecast or the optimization job is   *)
(* started.                                                                *)
(***************************************************************************)
C10_StepOrder ==
  \A r \in Runs :
    /\ \A j \in DOMAIN trace[r] :
         ( \/ trace[r][j].e \in {"mkdirSync", "renameSync", "exec"}
           \/ trace[r][j] \in {Ev("throw", "mkdirSync"), Ev("throw", "renameSync")} )
         => \E i \in 1..(j - 1) : trace[r][i] = Ev("updateParams", "ok")
    /\ \A job \in {runForecast, runOptimizer} :
         Preceded(r, Ev("exec", job),
                  {Ev("renameSync", TempPath(r)), Ev("resolved", makeSnapshot)})

\* a live run with a forecast that has started its optimization job
C10_Witness ==
  \E r \in Runs :
    /\ pc[r] = runOptimizer /\ ~req[r].hasFile
    /\ Started(r, makeSnapshot) /\ Started(r, runForecast)

\* r has written its configuration to the artifact and has not finished
InFlight(r) == Has(r, "updateParams", "ok") /\ pc[r] # "done"

(***************************************************************************)
(* C11 as stated: no run writes the artifact (its updateParams reaches     *)
(* writeFileSync) while another run has written it and has not yet         *)
(* reached the end of its cleanup.                                         *)
(***************************************************************************)
C11_SingleConfigInFlight ==
  [][ \A r, q \in Runs :
        ( /\ r # q
          /\ pc[r] = "idle" /\ pc'[r] # "idle"
          /\ \E i \in DOMAIN trace'[r] :
               trace'[r][i] \in {Ev("updateParams", "ok"), Ev("throw", "writeFileSync")} )
        => ~InFlight(q) ]_vars

\* the number of events e in the trace of r
RECURSIVE CountEv(_, _)
CountEv(t, e) ==
  IF t = <<>> THEN 0
  ELSE (IF Head(t).e = e THEN 1 ELSE 0) + CountEv(Tail(t), e)

\* every step r has executed succeeded: nothing threw, no job was rejected,
\* and the last job of the pipeline resolved
AllStepsSucceeded(r) ==
  /\ ~HasAny(r, "throw") /\ ~HasAny(r, "rejected")
  /\ Has(r, "resolved", runOptimizer)

(***************************************************************************)
(* C12: a run sends no response before it finishes and exactly one when    *)
(* it has finished; that response is the success payload (message and      *)
(* outputs, no error) exactly when every executed step succeeded, and      *)
(* otherwise the 500 payload with a non-empty error text, whatever failed  *)
(* (JSON decoding, validation, reading or writing the artifact, mkdir,     *)
(* rename, any job).                                                       *)
(***************************************************************************)
C12_OneResponseMatchingOutcome ==
  \A r \in Runs :
    /\ pc[r] # "done" => response[r] = <<>> /\ ~HasAny(r, "res.json")
    /\ pc[r] = "done" =>
         /\ Len(response[r]) = 1 /\ CountEv(trace[r], "res.json") = 1
         /\ response[r][1].status \in {200, 500}
         /\ response[r][1].status = 200 <=> AllStepsSucceeded(r)
         /\ response[r][1].status = 200 =>
              /\ response[r][1].message = "Optimization completed"
              /\ Len(response[r][1].outputs) >= 3
              /\ response[r][1].error = <<>>
              /\ Has(r, "res.json", "success")
         /\ response[r][1].status = 500 =>
              /\ response[r][1].error # <<>>
              /\ response[r][1].outputs = <<>> /\ response[r][1].message = ""
              /\ Has(r, "res.json", "error")
              /\ HasAny(r, "throw") \/ HasAny(r, "rejected")

\* a run whose write of the artifact failed with the content half written
C12_Witness ==
  \E r \in Runs :
    /\ pc[r] = "done" /\ Has(r, "throw", "writeFileSync")
    /\ Len(artifact) < Len(Template)
    /\ response[r] = <<ErrorResponse(Error(<<"ENOSPC">>))>>

\* the exit of job, as the handler of r sees it
Settled(job) == {Ev("resolved", job), Ev("rejected", job)}

\* while a job of r is in flight r has sent no response and deleted
\* nothing; every response of r comes after the exit of every job r started,
\* and every deletion after the response
OnlyWaits(r) ==
  /\ pc[r] \in Jobs =>
       /\ response[r] = <<>>
       /\ ~HasAny(r, "res.json") /\ ~HasAny(r, "safeDelete")
       /\ trace[r][Len(trace[r])] = Ev("exec", pc[r])
  /\ \A j, k \in DOMAIN trace[r] :
       (j < k /\ trace[r][j].e = "exec" /\ trace[r][k].e = "res.json") =>
         \E i \in (j + 1)..(k - 1) : trace[r][i] \in Settled(trace[r][j].a)
  /\ \A j, k \in DOMAIN trace[r] :
       (trace[r][j].e = "res.json" /\ trace[r][k].e = "safeDelete") => j < k

(***************************************************************************)
(* C13: given that every started job exits, a run that has begun           *)
(* eventually has sent its response and then completed its cleanup         *)
(* (Done), on every path.  And the run only waits: while one of its jobs   *)
(* is in flight it has sent no response and deleted nothing, it leaves     *)
(* that wait only by the exit of the job, and every response comes after   *)
(* the exit of every job the run started, the cleanup after the response.  *)
(***************************************************************************)
C13_RespondsThenCleansUp ==
  /\ \A r \in Runs :
       (pc[r] # "idle") ~>
         ( /\ pc[r] = "done" /\ Len(response[r]) = 1
           /\ Has(r, "safeDelete", snapshotPath) /\ Has(r, "return", "") )
  /\ \A r \in Runs : OnlyWaits(r)
  /\ [][ \A r \in Runs :
           /\ OnlyWaits(r)'
           /\ (pc[r] \in Jobs /\ pc'[r] # pc[r]) =>
                trace'[r][Len(trace[r]) + 1] \in Settled(pc[r]) ]_vars

\* a run that waited for three jobs, the last of which failed without
\* any diagnostic text, and is Done
C13_Witness ==
  \E r \in Runs :
    /\ pc[r] = "done"
    /\ Started(r, makeSnapshot) /\ Started(r, runForecast) /\ Started(r, runOptimizer)
    /\ response[r] = <<ErrorResponse(<<"Command failed">>)>>
    /\ Has(r, "safeDelete", forecastOutput)

\* the number of times r has started job
RECURSIVE CountExec(_, _)
CountExec(t, job) ==
  IF t = <<>> THEN 0
  ELSE (IF Head(t) = Ev("exec", job) THEN 1 ELSE 0) + CountExec(Tail(t), job)

(***************************************************************************)
(* C14: a run starts each of the three jobs at most once, and once one of  *)
(* its jobs was rejected it starts no job any more.                        *)
(***************************************************************************)
C14_NoRetry ==
  \A r \in Runs :
    /\ \A job \in Jobs : CountExec(trace[r], job) <= 1
    /\ \A k \in DOMAIN trace[r] :
         trace[r][k].e = "rejected" =>
           \A j \in DOMAIN trace[r] : j > k => trace[r][j].e # "exec"

\* a live run whose snapshot job succeeded and whose forecast job failed
C14_Witness ==
  \E r \in Runs :
    /\ pc[r] = "done"
    /\ Has(r, "resolved", makeSnapshot) /\ Has(r, "rejected", runForecast)
    /\ CountExec(trace[r], makeSnapshot) = 1 /\ CountExec(trace[r], runForecast) = 1
    /\ CountExec(trace[r], runOptimizer) = 0

\* the keys updateParams injects
SupportedKeys ==
  {"DATA_MODE", "start_date", "end_date", "mcp", "mdp", "round_trip_efficiency", "fee",
   "initial_soc", "degradation_cost_per_mwh", "as_duration_hours", "reserve_ramp_mw_per_hour"}

\* the serialized value of key for the parameters p (spec 4.1: strings in
\* quotes, numbers as literals, the sentinels)
NewValue(key, p) ==
  CASE key = "DATA_MODE" -> Quote(String(p.dataMode))
    [] key = "start_date" -> Quote(String(p.startDate))
    [] key = "end_date" -> Quote(String(p.endDate))
    [] key = "mcp" -> toPythonValue(p.mcp)
    [] key = "mdp" -> toPythonValue(p.mdp)
    [] key = "round_trip_efficiency" -> toPythonValue(p.roundTripEfficiency)
    [] key = "fee" -> toPythonValue(p.fee)
    [] key = "initial_soc" -> toPythonValue(p.initialSoc)
    [] key = "degradation_cost_per_mwh" -> toPythonValue(p.degradationCost)
    [] key = "as_duration_hours" -> toPythonValue(p.asDuration)
    [] key = "reserve_ramp_mw_per_hour" ->
         IF p.reserveRamp \in {Str(""), JSNull, Undefined} THEN "None"
         ELSE toPythonValue(p.reserveRamp)

\* the lines of content that assign key
LinesOf(content, key) == {i \in DOMAIN content : content[i].k = key}

\* this step is the arrival of the request of r, and its updateParams returned
Injects(r) ==
  /\ pc[r] = "idle" /\ pc'[r] # "idle"
  /\ \E i \in DOMAIN trace'[r] : trace'[r][i] = Ev("updateParams", "ok")

(***************************************************************************)
(* C15 as stated: when updateParams succeeds, every supported key that    *)
(* had an assignment line before has exactly one afterwards, and that      *)
(* line is `key = <the new serialized value>`; every line that is not an   *)
(* assignment of a supported key is unchanged and where it was.            *)
(***************************************************************************)
C15_RoundTrip ==
  [][ \A r \in Runs :
        Injects(r) =>
          /\ Len(artifact') = Len(artifact)
          /\ \A key \in SupportedKeys :
               LinesOf(artifact, key) # {} =>
                 /\ Cardinality(LinesOf(artifact', key)) = 1
                 /\ \A i \in LinesOf(artifact', key) :
                      artifact'[i] = Assign(key, " = ", NewValue(key, paramsOf(req'[r])))
          /\ \A i \in DOMAIN artifact :
               artifact[i].k \notin SupportedKeys => artifact'[i] = artifact[i] ]_vars

\* content holds the values of p: the line that injection rewrites for a
\* key is the assignment of the value of p
HoldsValuesOf(content, p) ==
  \A key \in SupportedKeys :
    LET i == FirstMatch(content, key, 1)
    IN i # 0 => content[i] = Assign(key, " = ", NewValue(key, p))

\* this step starts a job of r
StartsJob(r) == pc'[r] \in Jobs /\ pc'[r] # pc[r]

(***************************************************************************)
(* C16 as stated: whenever a run starts one of its jobs, the artifact      *)
(* holds at that moment the values that this run injected.                 *)
(***************************************************************************)
C16_OwnValuesAtJobStart ==
  [][ \A r \in Runs :
        StartsJob(r) => HoldsValuesOf(artifact', paramsOf(req'[r])) ]_vars

\* the forecast or the optimization job of r is in flight
EngineInFlight(r) == pc[r] \in {runForecast, runOptimizer}

(***************************************************************************)
(* C17: nothing holds a cleanup back while another run's job is in         *)
(* flight.  Whenever a run finishes while the forecast or optimization     *)
(* job of another run has not exited, its cleanup calls safeDelete on the  *)
(* fixed snapshot path and on the three fixed output paths all the same,   *)
(* and each of these files is gone afterwards unless its deletion failed;  *)
(* the other run's job is still in flight.  (That such a step is           *)
(* reachable is the witness.)                                              *)
(***************************************************************************)
C17_CleanupRacesJob ==
  [][ \A r, q \in Runs :
        (r # q /\ EngineInFlight(r) /\ pc[q] # "done" /\ pc'[q] = "done") =>
          /\ pc'[r] = pc[r]
          /\ \A p \in {snapshotPath} \cup SeqToSet(outputFiles0) :
               /\ \E i \in DOMAIN trace'[q] : trace'[q][i] = Ev("safeDelete", p)
               /\ (\A i \in DOMAIN trace'[q] : trace'[q][i] # Ev("warn", p)) => fs'[p] = Absent ]_vars

\* the optimization job of r is in flight on the upload that r moved to the
\* snapshot path, and the snapshot is gone: the cleanup of q, which has
\* finished, deleted it
C17_Witness ==
  \E r, q \in Runs :
    /\ r # q
    /\ pc[r] = runOptimizer /\ Has(r, "renameSync", TempPath(r))
    /\ pc[q] = "done" /\ Has(q, "safeDelete", snapshotPath) /\ ~Has(q, "warn", snapshotPath)
    /\ fs[snapshotPath] = Absent

\* the required parameters that rq lacks
LackingOf(rq) == {k \in Required : rq.config.val[k] \in BadValues}

(***************************************************************************)
(* C18: when the request of a run lacks a required parameter (its config   *)
(* decoded), the run fails at validateParams, before the artifact is read  *)
(* or written: no read or write failure is ever reported in its place,     *)
(* and the artifact is after the run what it was before it.                *)
(***************************************************************************)
C18_ValidationLeavesArtifact ==
  [][ \A r \in Runs :
        ( /\ pc[r] = "idle" /\ pc'[r] # "idle"
          /\ req'[r].config.wellFormed /\ LackingOf(req'[r]) # {} )
        => /\ artifact' = artifact
           /\ pc'[r] = "done"
           /\ trace'[r][1] = Ev("throw", "validateParams") ]_vars

\* a run that failed at validation on the params.py that assigns mcp twice
C18_Witness ==
  \E r \in Runs :
    /\ pc[r] = "done" /\ Has(r, "throw", "validateParams")
    /\ LackingOf(req[r]) = {"mcp"}
    /\ artifact = TemplateTwice

\* key carries a new value in new: one of its lines is not what it was in old
CarriesNew(old, new, key) ==
  \E i \in LinesOf(new, key) : i \in DOMAIN old /\ new[i] # old[i]

\* key still carries its previous value in new (and that is not the value
\* of p as well)
CarriesPrevious(old, new, key, p) ==
  \E i \in LinesOf(old, key) :
    /\ i \in DOMAIN new /\ new[i] = old[i]
    /\ old[i] # Assign(key, " = ", NewValue(key, p))

\* partially updated: some keys carry new values, others the previous ones
PartiallyUpdated(old, new, p) ==
  \E k1, k2 \in SupportedKeys : CarriesNew(old, new, k1) /\ CarriesPrevious(old, new, k2, p)

\* this step is the arrival of the request of r, and its updateParams threw at call
FailsAt(r, call) ==
  /\ pc[r] = "idle" /\ pc'[r] # "idle"
  /\ trace'[r][1] = Ev("throw", call)

(***************************************************************************)
(* C19 as stated: when the rewriting of the artifact fails partway (the    *)
(* write of updateParams throws), the artifact is left partially updated:  *)
(* some supported keys carry the new values, others the previous ones.     *)
(***************************************************************************)
C19_AsStated ==
  [][ \A r \in Runs :
        FailsAt(r, "writeFileSync") =>
          PartiallyUpdated(artifact, artifact', paramsOf(req'[r])) ]_vars

(***************************************************************************)
(* C19 amended: a failure of updateParams never leaves new values next to  *)
(* previous ones.  When the read fails the artifact is unchanged; when     *)
(* the write fails the artifact is either unchanged (the file could not    *)
(* be opened) or holds a leading part of the new content only, possibly    *)
(* nothing (the file was truncated when it was opened): the lines after    *)
(* that part, with their keys, are gone.                                   *)
(***************************************************************************)
C19_WriteFailureTruncates ==
  [][ \A r \in Runs :
        /\ FailsAt(r, "readFileSync") => artifact' = artifact
        /\ FailsAt(r, "writeFileSync") =>
             /\ ~PartiallyUpdated(artifact, artifact', paramsOf(req'[r]))
             /\ \/ artifact' = artifact
                \/ /\ Len(artifact') < Len(artifact)
                   /\ \A i \in DOMAIN artifact' :
                        /\ artifact'[i].k = artifact[i].k
                        /\ artifact[i].k \notin SupportedKeys => artifact'[i] = artifact[i] ]_vars

\* a run whose write failed half way on the shipped params.py: mcp holds
\* the new value and nothing is left from the seventh line on
C19_Witness ==
  \E r \in Runs :
    /\ pc[r] = "done" /\ Has(r, "throw", "writeFileSync")
    /\ Len(artifact) = 6
    /\ artifact[5] = Assign("mcp", " = ", "10")
    /\ LinesOf(artifact, "fee") = {}

(***************************************************************************)
(* C20: when updateParams runs on an artifact that has no assignment line  *)
(* for some supported key, it returns all the same, and the artifact has   *)
(* no line for that key afterwards either: it has as many lines as         *)
(* before, every line that assigns no supported key is unchanged, and the  *)
(* keys that do have a line are injected as usual (their first line now    *)
(* reads `key = <new value>`; a date value that holds a $ pattern aside,   *)
(* see C15).                                                               *)
(***************************************************************************)
C20_AbsentKeyIsNoOp ==
  [][ \A r \in Runs :
        (pc[r] = "idle" /\ pc'[r] # "idle") =>
          /\ ( /\ req'[r].config.wellFormed /\ LackingOf(req'[r]) = {} )
             => trace'[r][1] \in {Ev("updateParams", "ok"), Ev("throw", "readFileSync"),
                                  Ev("throw", "writeFileSync")}
          /\ Injects(r) =>
               /\ Len(artifact') = Len(artifact)
               /\ \A i \in DOMAIN artifact :
                    artifact[i].k \notin SupportedKeys => artifact'[i] = artifact[i]
               /\ \A key \in SupportedKeys :
                    LET i == FirstMatch(artifact, key, 1)
                        v == NewValue(key, paramsOf(req'[r]))
                    IN IF i = 0
                       THEN LinesOf(artifact', key) = {}
                       ELSE /\ artifact'[i].k = key /\ artifact'[i].sep = " = "
                            /\ v # "\"$&\"" => artifact'[i].v = v ]_vars

\* a run that has injected its values into the params.py without the lines
\* of mdp and of the reserve ramp
C20_Witness ==
  \E r \in Runs :
    /\ Has(r, "updateParams", "ok")
    /\ req[r].config.val["mdp"] = Str("5") /\ req[r].config.val["reserveRamp"] = Num(3)
    /\ LinesOf(artifact, "mdp") = {} /\ LinesOf(artifact, "reserve_ramp_mw_per_hour") = {}
    /\ Len(artifact) = Len(TemplateLacking)
    /\ artifact[5] = Assign("mcp", " = ", "5")
    /\ artifact[6] = Assign("round_trip_efficiency", " = ", "5")

\* a plain numeric literal: an optional sign and decimal digits
NumericLiterals ==
  {NatToString(i) : i \in 0..20} \cup {"-" \o NatToString(i) : i \in 1..20}

\* the values that are null, absent, the empty string or not a number
NotANumber == {JSNull, Undefined, Str(""), Str("abc"), NaN}

(***************************************************************************)
(* C21 as stated: toPythonValue gives float('nan') for a value that is     *)
(* null, undefined, the empty string or not a number, and a plain numeric  *)
(* literal for every other value.                                          *)
(***************************************************************************)
C21_NumericSerialization ==
  (unit.fn = "toPythonValue" /\ unit.done) =>
    IF unit.arg \in NotANumber
    THEN unit.out = "float('nan')"
    ELSE unit.out \in NumericLiterals

RampAbsent == {Str(""), JSNull, Undefined}

(***************************************************************************)
(* C22 as stated: the reserve ramp serializes to None when it is null,     *)
(* undefined or the empty string, and to a numeric literal for every other *)
(* value, non-numeric ones included.                                       *)
(***************************************************************************)
C22_AsStated ==
  (unit.fn = "reserveRamp" /\ unit.done) =>
    IF unit.arg \in RampAbsent
    THEN unit.out = "None"
    ELSE unit.out \in NumericLiterals

(***************************************************************************)
(* C22 amended: the reserve ramp serializes to None when it is null,       *)
(* undefined or the empty string; otherwise to float('nan') when the value *)
(* is not a number, to a numeric literal when it is a finite number, and   *)
(* to the word Infinity when it is an infinite one.                        *)
(***************************************************************************)
C22_RampSerialization ==
  (unit.fn = "reserveRamp" /\ unit.done) =>
    IF unit.arg \in RampAbsent THEN unit.out = "None"
    ELSE IF unit.arg \in NotANumber THEN unit.out = "float('nan')"
    ELSE IF unit.arg \in {Infinity, Str("Infinity")} THEN unit.out = "Infinity"
    ELSE unit.out \in NumericLiterals

C22_Witness ==
  /\ unit.fn = "reserveRamp" /\ unit.done
  /\ unit.arg = Str("abc")
  /\ unit.out = "float('nan')"

(***************************************************************************)
(* C23 as stated: a request without an uploaded file that lacks startDate  *)
(* or endDate never has the make-snapshot job started.                     *)
(***************************************************************************)
C23_LiveModeNeedsDates ==
  \A r \in Runs :
    (/\ req[r] # NoRequest
     /\ ~req[r].hasFile
     /\ (req[r].startDate = Undefined \/ req[r].endDate = Undefined))
      => ~Started(r, makeSnapshot)

\* the number of times the event ev occurs in t
RECURSIVE CountOf(_, _)
CountOf(t, ev) ==
  IF t = <<>> THEN 0
  ELSE (IF Head(t) = ev THEN 1 ELSE 0) + CountOf(Tail(t), ev)

(***************************************************************************)
(* C24: when a deletion of the cleanup of a run failed, the run still has  *)
(* called safeDelete exactly once on every path of its cleanup list, the   *)
(* failed one included; nothing but deletions and the return follows the   *)
(* failure (no throw, no second response); the run has returned; and its   *)
(* response is the one it sent before the cleanup.                         *)
(***************************************************************************)
C24_CleanupFailureContained ==
  \A r \in Runs :
    (pc[r] = "done" /\ HasAny(r, "warn")) =>
      /\ \A p \in SeqToSet(cleanupList(r, req[r], outputFiles[r])) :
           CountOf(trace[r], Ev("safeDelete", p)) = 1
      /\ \A i, j \in DOMAIN trace[r] :
           (trace[r][i].e = "warn" /\ j > i) =>
             trace[r][j].e \in {"safeDelete", "warn", "return"}
      /\ trace[r][Len(trace[r])] = Ev("return", "")
      /\ Len(response[r]) = 1
      /\ CountEv(trace[r], "res.json") = 1
      /\ \A i, j \in DOMAIN trace[r] :
           (trace[r][i].e = "res.json" /\ trace[r][j].e = "warn") => i < j

\* the deletion of the snapshot failed, and the deletions of the outputs,
\* which come after it in the list, were made all the same
C24_Witness ==
  \E r \in Runs :
    /\ pc[r] = "done" /\ Succeeded(r)
    /\ Has(r, "warn", snapshotPath) /\ fs[snapshotPath] # Absent
    /\ \A i \in 1..3 : Has(r, "safeDelete", outputFiles0[i]) /\ fs[outputFiles0[i]] = Absent
    /\ response[r] = <<SuccessResponse(outputFiles[r])>>

\* the cleanup logged a failure
Warns(del) == \E i \in DOMAIN del.ev : del.ev[i].e = "warn"

CleanedTwice == unit.fn = "safeDelete" /\ unit.done

(***************************************************************************)
(* C25 as stated: a second cleanup over the same path list leaves the file *)
(* system as the first cleanup left it, and so does a cleanup of paths     *)
(* that never existed; neither reports an error.                           *)
(***************************************************************************)
C25_AsStated ==
  CleanedTwice =>
    /\ unit.out.second.fs = unit.out.first.fs
    /\ (\A p \in Paths : unit.arg.fs[p] = Absent) =>
         unit.out.first.fs = unit.arg.fs /\ ~Warns(unit.out.first)

(***************************************************************************)
(* C25 amended: a cleanup does nothing to a path that is already missing   *)
(* (deleted by an earlier cleanup, or never there) and logs nothing for    *)
(* it; so a second cleanup after one whose deletions all succeeded, and a  *)
(* cleanup of paths that never existed, leave the file system unchanged    *)
(* and log no failure.  The only change a second cleanup can make is to    *)
(* delete a file whose deletion failed the first time.                     *)
(***************************************************************************)
C25_IdempotentOnMissingPaths ==
  CleanedTwice =>
    LET first == unit.out.first
        second == unit.out.second
    IN /\ \A p \in Paths :
            first.fs[p] = Absent =>
              second.fs[p] = Absent /\ Ev("warn", p) \notin SeqToSet(second.ev)
       /\ ~Warns(first) => (second.fs = first.fs /\ ~Warns(second))
       /\ (\A p \in Paths : unit.arg.fs[p] = Absent) => (first.fs = unit.arg.fs /\ ~Warns(first))
       /\ \A p \in Paths :
            second.fs[p] # first.fs[p] =>
              (Ev("warn", p) \in SeqToSet(first.ev) /\ second.fs[p] = Absent)

\* every file was deleted by the first cleanup, and the second found nothing
C25_Witness ==
  /\ CleanedTwice
  /\ \A p \in SeqToSet(UnitPaths) : unit.arg.fs[p] # Absent
  /\ ~Warns(unit.out.first)
  /\ \A p \in Paths : unit.out.second.fs[p] = Absent
  /\ Len(unit.out.second.ev) = Len(UnitPaths)

\* r moved its upload to the snapshot path
Ingested(r) == Has(r, "renameSync", TempPath(r))

(***************************************************************************)
(* C26: once a run has moved its upload, no file is at the uploaded temp   *)
(* path any more, and while the jobs of the run are in flight the snapshot *)
(* path holds the uploaded file; the cleanup of the run calls safeDelete   *)
(* on the temp path once and finds nothing to delete (so it cannot fail).  *)
(* A run with an upload that ended without the move has called safeDelete  *)
(* on the temp path, and the file is gone unless that deletion failed.     *)
(***************************************************************************)
C26_IngestionMoves ==
  \A r \in Runs :
    /\ Ingested(r) =>
         /\ fs[TempPath(r)] = Absent
         /\ pc[r] \in Jobs => fs[snapshotPath] = UploadData(r)
         /\ ~Has(r, "warn", TempPath(r))
         /\ pc[r] = "done" => CountOf(trace[r], Ev("safeDelete", TempPath(r))) = 1
    /\ (pc[r] = "done" /\ req[r].hasFile /\ ~Ingested(r)) =>
         /\ Failed(r)
         /\ CountOf(trace[r], Ev("safeDelete", TempPath(r))) = 1
         /\ fs[TempPath(r)] = Absent <=> ~Has(r, "warn", TempPath(r))

\* the upload was moved, the optimization ran on it, and the cleanup found
\* the temp path empty
C26_Witness ==
  \E r \in Runs :
    /\ pc[r] = "done" /\ Succeeded(r) /\ Ingested(r)
    /\ Has(r, "safeDelete", TempPath(r))
    /\ fs[TempPath(r)] = Absent /\ fs[snapshotPath] = Absent

\* validation failed before the move, and the upload, still at its temp path,
\* outlived a cleanup whose deletion failed
C26_WitnessBeforeMove ==
  \E r \in Runs :
    /\ pc[r] = "done" /\ req[r].hasFile /\ ~Ingested(r)
    /\ Has(r, "throw", "validateParams")
    /\ Has(r, "warn", TempPath(r)) /\ fs[TempPath(r)] = UploadData(r)

(***************************************************************************)
(* C27: runCmd resolves, with the captured standard output, exactly when   *)
(* exec reports no error (the job exited with status zero), whatever the   *)
(* job wrote to its error stream; when exec reports an error (non-zero     *)
(* exit, or the spawn failed) it rejects, with the captured error-stream   *)
(* text if that is not empty and with the message of the error otherwise.  *)
(***************************************************************************)
C27_JobOutcome ==
  (unit.fn = "runCmd" /\ unit.done) =>
    /\ unit.out.rejected <=> unit.arg.err
    /\ ~unit.arg.err => unit.out.value = unit.arg.stdout
    /\ (unit.arg.err /\ unit.arg.stderr # "") => unit.out.value = unit.arg.stderr
    /\ (unit.arg.err /\ unit.arg.stderr = "") => unit.out.value = unit.arg.message

\* the spawn failed, nothing was captured, and the promise rejects with the
\* message of the error
C27_Witness ==
  /\ unit.fn = "runCmd" /\ unit.done
  /\ unit.arg.err /\ unit.arg.stderr = ""
  /\ unit.out = [rejected |-> TRUE, value |-> "spawn /bin/sh ENOENT"]

\* the paths the cleanup of r called safeDelete on
DeletionSet(r) == {p \in Paths : Has(r, "safeDelete", p)}

ForecastSucceeded(r) == Has(r, "resolved", runForecast)

(***************************************************************************)
(* C28: the paths the cleanup of a finished run called safeDelete on are   *)
(* exactly its uploaded temp path (if it had an upload), the snapshot      *)
(* path, the three fixed output paths, and the forecast output path if and *)
(* only if the forecast job of the run resolved; and the cleanup of a run  *)
(* whose forecast job did not resolve (it failed, or forecasting was off)  *)
(* leaves whatever is at the forecast output path as it was.               *)
(***************************************************************************)
C28_DeletionSet ==
  /\ [](\A r \in Runs :
          pc[r] = "done" =>
            DeletionSet(r) =
              (IF req[r].hasFile THEN {TempPath(r)} ELSE {})
              \cup {snapshotPath} \cup SeqToSet(outputFiles0)
              \cup (IF ForecastSucceeded(r) THEN {forecastOutput} ELSE {}))
  /\ [][\A r \in Runs :
          (pc[r] # "done" /\ pc'[r] = "done" /\ ~ForecastSucceeded(r)') =>
            fs'[forecastOutput] = fs[forecastOutput]]_vars

\* the forecast job wrote its output and failed; the cleanup went over the
\* snapshot and the three outputs and left the forecast output where it was
C28_Witness ==
  \E r \in Runs :
    /\ pc[r] = "done" /\ Has(r, "rejected", runForecast)
    /\ DeletionSet(r) = {snapshotPath} \cup SeqToSet(outputFiles0)
    /\ fs[forecastOutput] = JobData
    /\ fs[snapshotPath] = Absent

\* the request of r has arrived, so r has called updateParams
Called(r) == pc[r] # "idle"

(***************************************************************************)
(* C29 as stated: once the artifact has been written, the supported keys   *)
(* it assigns all carry the values of one single run, never a mixture of   *)
(* the values of two runs; and right after updateParams returned to a run  *)
(* they carry the values of that run, the last writer.                     *)
(***************************************************************************)
C29_OneRunsValues ==
  /\ [](artifact # Template =>
          \E w \in Runs : Called(w) /\ HoldsValuesOf(artifact, paramsOf(req[w])))
  /\ [][\A r \in Runs : Injects(r) => HoldsValuesOf(artifact', paramsOf(req'[r]))]_vars

\* the keys of the artifact that hold the seven required parameters
RequiredKeys ==
  {"mcp", "mdp", "round_trip_efficiency", "fee", "initial_soc",
   "degradation_cost_per_mwh", "as_duration_hours"}

(***************************************************************************)
(* C30: no line of the artifact that assigns one of the seven required     *)
(* keys ever holds float('nan'), whatever the requests were; a line that   *)
(* holds float('nan') is the line of the reserve ramp.                     *)
(***************************************************************************)
C30_SentinelOnlyForRamp ==
  \A i \in DOMAIN artifact :
    /\ artifact[i].k \in RequiredKeys => artifact[i].v # "float('nan')"
    /\ artifact[i].v = "float('nan')" => artifact[i].k = "reserve_ramp_mw_per_hour"

\* a run whose reserve ramp is not a number passed validation and wrote the
\* sentinel for it, next to the numbers of the required keys
C30_Witness ==
  \E r \in Runs :
    /\ Has(r, "updateParams", "ok")
    /\ req[r].config.val["reserveRamp"] = Str("abc")
    /\ \E i \in DOMAIN artifact :
         artifact[i] = Assign("reserve_ramp_mw_per_hour", " = ", "float('nan')")
    /\ \E i \in DOMAIN artifact : artifact[i] = Assign("mcp", " = ", "5")

====
